---- MODULE Spec2Model ----
(***************************************************************************)
(* Movie catalog backend: the rating aggregate (average_rating,            *)
(* num_ratings) of the movies table and the HTTP handlers that read and    *)
(* write it.  Two servers exist in the repository:                         *)
(*   - backend/db.js  : connectWithRetry/startServer and a rate handler    *)
(*                      that runs in a transaction (SELECT ... FOR UPDATE) *)
(*   - server.js      : validated handlers that talk to the pool with      *)
(*                      db.query, one autocommitted statement at a time    *)
(* Decimal values (ratings, averages) are integers scaled by 100.          *)
(***************************************************************************)
EXTENDS Integers, Sequences, FiniteSets, TLC

VARIABLES
    movies,     \* the committed movies table: id -> row, or NoMovie
    nextId,     \* AUTO_INCREMENT counter of movies.id
    lockOwner,  \* id -> request whose transaction holds the row lock, or 0
    req,        \* request slot -> the handler's local state
    boot,       \* the process: startup position, retries, listening, exited
    served,     \* number of requests the process has received
    faults,     \* number of store calls that have failed so far
    ledger      \* history: id -> sum and number of the ratings folded into the row,
                \* and how many of them were no integer of 1..5

vars == <<movies, nextId, lockOwner, req, boot, served, faults, ledger>>

----------------------------------------------------------------------------
(* Bounds of the model *)

MaxReqs == 3        \* request slots of the concurrent rating workload
MaxSeq == 7         \* ratings submitted one after another
MaxCreated == 1     \* rows INSERTed on top of the seed data
MaxFaultReqs == 2   \* request slots of the workload with failing store calls
MaxFaults == 2      \* store calls that fail in one run
MaxOps == 4         \* catalog operations issued one after another
MaxExtra == 1       \* submissions in flight beyond the pool's connectionLimit
MaxAnswered == 2    \* submissions of that workload followed to their answer

(* Program constants *)

connectionLimit == 10
Retries == 5
SeedRows == 3
VarcharLen == 255

NoMovie == [absent |-> TRUE]

Ids == 1..(SeedRows + MaxCreated + 1)
\* request slots: enough for the largest workload of the model
PoolReqIds == 1..(connectionLimit + MaxExtra)
ConcReqIds == 1..MaxReqs
FaultReqIds == 1..MaxFaultReqs
ReqIds == PoolReqIds \cup ConcReqIds \cup FaultReqIds

----------------------------------------------------------------------------
(* The movies table *)

\* Text is a sequence of characters; a NULL text column is Null, a NULL year
\* is NoYear.  The seed texts of init.sql are abbreviated.
Null == <<"NULL">>
NoYear == 0

\* (faulty variant: genre is left out of the INSERT's column list)
NewRow_GenreDropped(title, director, year, genre, description, poster_url) ==
    [title |-> title, director |-> director, year |-> year, genre |-> Null,
     description |-> description, poster_url |-> poster_url,
     average_rating |-> 0, num_ratings |-> 0]

NewRow(title, director, year, genre, description, poster_url) ==
    [title |-> title, director |-> director, year |-> year, genre |-> genre,
     description |-> description, poster_url |-> poster_url,
     average_rating |-> 0, num_ratings |-> 0]

Inception == <<"I", "n", "c", "e", "p", "t", "i", "o", "n">>
Shawshank == <<"S", "h", "a", "w", "s", "h", "a", "n", "k">>
PulpFiction == <<"P", "u", "l", "p", " ", "F", "i", "c", "t", "i", "o", "n">>
Nolan == <<"N", "o", "l", "a", "n">>
Darabont == <<"D", "a", "r", "a", "b", "o", "n", "t">>
Tarantino == <<"T", "a", "r", "a", "n", "t", "i", "n", "o">>
SciFi == <<"S", "c", "i", "-", "F", "i">>
Drama == <<"D", "r", "a", "m", "a">>
Crime == <<"C", "r", "i", "m", "e">>
Poster == <<"h", "t", "t", "p", "s", ":", "/", "/", "t", ".", "j", "p", "g">>

SeedMovies ==
    [i \in Ids |->
        CASE i = 1 -> NewRow(Inception, Nolan, 2010, SciFi, <<"d", "1">>, Poster)
          [] i = 2 -> NewRow(Shawshank, Darabont, 1994, Drama, <<"d", "2">>, Poster)
          [] i = 3 -> NewRow(PulpFiction, Tarantino, 1994, Crime, <<"d", "3">>, Poster)
          [] OTHER -> NoMovie]

Exists(id) == id \in Ids /\ movies[id] # NoMovie

\* a row as a SELECT * returns it
RowOf(id) ==
    [id |-> id, title |-> movies[id].title, director |-> movies[id].director,
     year |-> movies[id].year, genre |-> movies[id].genre,
     description |-> movies[id].description, poster_url |-> movies[id].poster_url,
     average_rating |-> movies[id].average_rating,
     num_ratings |-> movies[id].num_ratings]

\* the result set of SELECT * FROM movies WHERE id = ?
SelectById(id) == IF Exists(id) THEN <<RowOf(id)>> ELSE <<>>

\* the rows of SELECT * FROM movies (their order is not modelled)
SelectAll == {RowOf(id) : id \in {i \in Ids : Exists(i)}}

\* the result set of SELECT average_rating, num_ratings FROM movies WHERE id = ?
SelectAggregate(id) ==
    IF Exists(id)
    THEN <<[average_rating |-> movies[id].average_rating,
            num_ratings |-> movies[id].num_ratings]>>
    ELSE <<>>

----------------------------------------------------------------------------
(* Numbers *)

\* num/den rounded to the nearest integer, halves away from zero (num, den >= 0)
RoundDiv(num, den) == (2 * num + den) \div (2 * den)

\* (faulty variant: the digits after the second are cut off)
Round2_Truncated(num, den) == num \div den

\* a value num/den (scaled by 100) stored into a DECIMAL(3,2) column, or
\* formatted by toFixed(2): two fractional digits are kept
Round2(num, den) == RoundDiv(num, den)

\* a JSON number with value v/100, or a missing field
Num(v) == [type |-> "number", v |-> v]
Undefined == [type |-> "undefined", v |-> 0]

IsInteger(x) == x.type = "number" /\ x.v % 100 = 0

\* a rating as the interface defines it: an integer of 1..5
ValidRating(x) == IsInteger(x) /\ x.v >= 100 /\ x.v <= 500

\* the history after the UPDATE of a rate handler took effect on row id
Folded(id, rating) ==
    [ledger EXCEPT ![id].sum = @ + rating.v,
                   ![id].n = @ + 1,
                   ![id].invalid = @ + (IF ValidRating(rating) THEN 0 ELSE 1)]

----------------------------------------------------------------------------
(* Requests *)

EmptyBody == [c \in {} |-> 0]

Idle ==
    [pc |-> "idle", kind |-> "none", id |-> 0, rating |-> Undefined,
     body |-> EmptyBody, rows |-> <<>>, newTotal |-> 0, newNum |-> 0,
     status |-> 0, respAvg |-> 0, respNum |-> 0,
     term |-> Null, out |-> {},
     conn |-> "none", releases |-> 0, tx |-> "none", wrote |-> FALSE,
     fault |-> "none"]

\* slots are taken in order: which slot serves a request has no meaning
CanReceive(r) ==
    /\ boot.pc = "listening"
    /\ req[r].pc = "idle"
    /\ \A q \in ReqIds : q < r => req[q].pc # "idle"

InFlight(r) == boot.pc = "listening" /\ req[r].pc \notin {"idle", "done"}

\* res.status(code).json(...) and the end of the handler
\* (the handler's locals go out of scope)
Respond(r, code) ==
    [req[r] EXCEPT !.pc = "done", !.status = code,
                   !.rows = <<>>, !.newTotal = 0, !.newNum = 0]

\* what the framework does with a handler whose promise rejects: Express 4
\* drops the rejection (no response is ever sent, status 0), Express 5 hands
\* it to the default error handler (500).  The repository pins neither.
RejectedStatus == {0, 500}

PooledInUse == Cardinality({q \in ReqIds : req[q].conn = "held"})

----------------------------------------------------------------------------
(* backend/db.js: startup *)

\* one pass of the while loop whose createPool + "SELECT 1" succeed: break,
\* connectWithRetry returns and startServer calls app.listen
ConnectOk ==
    /\ boot.pc = "connect"
    /\ boot.retries > 0
    /\ boot' = [boot EXCEPT !.pc = "listening", !.checks = @ + 1, !.retries = 0]
    /\ UNCHANGED <<movies, nextId, lockOwner, req, served, faults, ledger>>

\* (faulty variant: the catch block sleeps without testing retries === 0)
ConnectFail_NoExit ==
    /\ boot.pc = "connect"
    /\ boot.retries > 0
    /\ boot' = [boot EXCEPT !.retries = @ - 1, !.pc = "backoff"]
    /\ UNCHANGED <<movies, nextId, lockOwner, req, served, faults, ledger>>

\* one pass whose attempt throws: retries -= 1, exit(1) at zero, else sleep
ConnectFail ==
    /\ boot.pc = "connect"
    /\ boot.retries > 0
    /\ boot' = [boot EXCEPT !.retries = @ - 1,
                            !.pc = IF boot.retries - 1 = 0 THEN "exited" ELSE "backoff"]
    /\ UNCHANGED <<movies, nextId, lockOwner, req, served, faults, ledger>>

\* the 5 second timer of the catch block fires; the loop tests retries again
BackoffElapsed ==
    /\ boot.pc = "backoff"
    /\ boot' = [boot EXCEPT !.pc = "connect"]
    /\ UNCHANGED <<movies, nextId, lockOwner, req, served, faults, ledger>>

connectWithRetry == ConnectOk \/ ConnectFail \/ BackoffElapsed

----------------------------------------------------------------------------
(* backend/db.js: POST /api/movies/:id/rate *)

\* if (!rating || rating < 1 || rating > 5)
RatingRejected(rating) ==
    \/ rating.type = "undefined"
    \/ rating.v = 0
    \/ rating.v < 100
    \/ rating.v > 500

\* the handler's arithmetic on the row it read (the quotient is rounded when
\* it is stored or formatted, see Round2)
\* (faulty variant: the stored mean is not weighted by the stored count)
NewTotalRating_Unweighted(row, rating) == row.average_rating + rating.v

NewTotalRating(row, rating) == row.average_rating * row.num_ratings + rating.v
NewNumRatings(row) == row.num_ratings + 1
\* (faulty variant: the SELECT is sent without FOR UPDATE, waits for no lock)
RowLockFree_NoForUpdate(id, r) == TRUE

\* (faulty variant: the SELECT locks the whole table, not the row)
RowLockFree_TableLock(id, r) == \A i \in Ids : lockOwner[i] \in {0, r}

\* the row lock of SELECT ... FOR UPDATE can be taken by r
RowLockFree(id, r) == id \notin Ids \/ lockOwner[id] \in {0, r}

ReleaseLocks(r) == [i \in Ids |-> IF lockOwner[i] = r THEN 0 ELSE lockOwner[i]]

\* the handler up to its first await: the rating check, then getConnection
RateReceive(r, id, rating) ==
    /\ CanReceive(r)
    /\ boot.server = "backend/db.js"
    /\ served' = served + 1
    /\ req' = [req EXCEPT ![r] =
                 IF RatingRejected(rating)
                 THEN [Idle EXCEPT !.pc = "done", !.kind = "rate", !.id = id,
                                   !.rating = rating, !.status = 400]
                 ELSE [Idle EXCEPT !.pc = "getconn", !.kind = "rate", !.id = id,
                                   !.rating = rating]]
    /\ UNCHANGED <<movies, nextId, lockOwner, boot, faults, ledger>>

\* await db.getConnection() resolves: the pool hands out a connection
GetConnectionOk(r) ==
    /\ InFlight(r) /\ req[r].pc = "getconn"
    /\ PooledInUse < connectionLimit
    /\ req' = [req EXCEPT ![r].pc = "begin", ![r].conn = "held"]
    /\ UNCHANGED <<movies, nextId, lockOwner, boot, served, faults, ledger>>

\* await db.getConnection() rejects, outside the try: the handler's promise
\* rejects and none of its code runs any more
GetConnectionFail(r) ==
    /\ InFlight(r) /\ req[r].pc = "getconn"
    /\ \E code \in RejectedStatus :
         req' = [req EXCEPT ![r] = [Respond(r, code) EXCEPT !.fault = "getConnection"]]
    /\ faults < MaxFaults /\ faults' = faults + 1
    /\ UNCHANGED <<movies, nextId, lockOwner, boot, served, ledger>>

BeginTransactionOk(r) ==
    /\ InFlight(r) /\ req[r].pc = "begin"
    /\ req' = [req EXCEPT ![r].pc = "select", ![r].tx = "open"]
    /\ UNCHANGED <<movies, nextId, lockOwner, boot, served, faults, ledger>>

\* any awaited store call inside the try throws: control goes to the catch
\* block, whose first statement is await connection.rollback()
\* (fault records the first call that failed)
ThrowInTry(r, call) ==
    [req[r] EXCEPT !.pc = "catch",
                   !.fault = IF @ = "none" THEN call ELSE @]

BeginTransactionFail(r) ==
    /\ InFlight(r) /\ req[r].pc = "begin"
    /\ req' = [req EXCEPT ![r] = ThrowInTry(r, "beginTransaction")]
    /\ faults < MaxFaults /\ faults' = faults + 1
    /\ UNCHANGED <<movies, nextId, lockOwner, boot, served, ledger>>

\* SELECT average_rating, num_ratings ... FOR UPDATE returns: the row, if
\* any, is locked for the transaction; the new values are computed up to
\* the next await (the UPDATE), or the rollback of the 404 path is issued
SelectForUpdateOk(r) ==
    /\ InFlight(r) /\ req[r].pc = "select"
    /\ RowLockFree(req[r].id, r)
    /\ LET movieRows == SelectAggregate(req[r].id) IN
         IF Len(movieRows) = 0
         THEN /\ req' = [req EXCEPT ![r].pc = "nf_rollback", ![r].rows = movieRows]
              /\ UNCHANGED lockOwner
         ELSE /\ req' = [req EXCEPT ![r].pc = "update", ![r].rows = movieRows,
                           ![r].newTotal = NewTotalRating(movieRows[1], req[r].rating),
                           ![r].newNum = NewNumRatings(movieRows[1])]
              /\ lockOwner' = [lockOwner EXCEPT ![req[r].id] = r]
    /\ UNCHANGED <<movies, nextId, boot, served, faults, ledger>>

\* the SELECT throws (connection error, lock wait timeout)
SelectForUpdateFail(r) ==
    /\ InFlight(r) /\ req[r].pc = "select"
    /\ req' = [req EXCEPT ![r] = ThrowInTry(r, "select")]
    /\ faults < MaxFaults /\ faults' = faults + 1
    /\ UNCHANGED <<movies, nextId, lockOwner, boot, served, ledger>>

\* (faulty variant: the 404 is sent without rolling the transaction back)
NotFoundRollbackOk_NoRollback(r) ==
    /\ InFlight(r) /\ req[r].pc = "nf_rollback"
    /\ req' = [req EXCEPT ![r] = [Respond(r, 404) EXCEPT
                 !.conn = "released", !.releases = @ + 1]]
    /\ UNCHANGED <<movies, nextId, lockOwner, boot, served, faults, ledger>>

\* 404 path: rollback resolves, the response is sent, finally releases
NotFoundRollbackOk(r) ==
    /\ InFlight(r) /\ req[r].pc = "nf_rollback"
    /\ req' = [req EXCEPT ![r] = [Respond(r, 404) EXCEPT
                 !.tx = "rolledback", !.wrote = FALSE,
                 !.conn = "released", !.releases = @ + 1]]
    /\ lockOwner' = ReleaseLocks(r)
    /\ UNCHANGED <<movies, nextId, boot, served, faults, ledger>>

NotFoundRollbackFail(r) ==
    /\ InFlight(r) /\ req[r].pc = "nf_rollback"
    /\ req' = [req EXCEPT ![r] = ThrowInTry(r, "rollback")]
    /\ faults < MaxFaults /\ faults' = faults + 1
    /\ UNCHANGED <<movies, nextId, lockOwner, boot, served, ledger>>

\* (faulty variant: the response is sent after the UPDATE, before the commit)
UpdateOk_RespondsEarly(r) ==
    /\ InFlight(r) /\ req[r].pc = "update"
    /\ req' = [req EXCEPT ![r] = [Respond(r, 200) EXCEPT
                 !.wrote = TRUE,
                 !.respAvg = Round2(req[r].newTotal, req[r].newNum),
                 !.respNum = req[r].newNum,
                 !.conn = "released", !.releases = @ + 1]]
    /\ UNCHANGED <<movies, nextId, lockOwner, boot, served, faults, ledger>>

\* UPDATE movies SET average_rating = ?, num_ratings = ? inside the
\* transaction: the write is pending until commit
UpdateOk(r) ==
    /\ InFlight(r) /\ req[r].pc = "update"
    /\ req' = [req EXCEPT ![r].pc = "commit", ![r].wrote = TRUE]
    /\ UNCHANGED <<movies, nextId, lockOwner, boot, served, faults, ledger>>

UpdateFail(r) ==
    /\ InFlight(r) /\ req[r].pc = "update"
    /\ req' = [req EXCEPT ![r] = ThrowInTry(r, "update")]
    /\ faults < MaxFaults /\ faults' = faults + 1
    /\ UNCHANGED <<movies, nextId, lockOwner, boot, served, ledger>>

\* commit resolves: the pending write becomes the committed row and the lock
\* is dropped; then res.json(...) and the finally block run without an await
CommitOk(r) ==
    /\ InFlight(r) /\ req[r].pc = "commit"
    /\ LET id == req[r].id
           stored == Round2(req[r].newTotal, req[r].newNum) IN
         /\ movies' = IF req[r].wrote /\ Exists(id)
                      THEN [movies EXCEPT ![id].average_rating = stored,
                                          ![id].num_ratings = req[r].newNum]
                      ELSE movies
         /\ ledger' = IF req[r].wrote /\ Exists(id)
                      THEN Folded(id, req[r].rating)
                      ELSE ledger
         /\ req' = [req EXCEPT ![r] = [Respond(r, 200) EXCEPT
                      !.tx = "committed", !.wrote = FALSE,
                      !.respAvg = stored, !.respNum = req[r].newNum,
                      !.conn = "released", !.releases = @ + 1]]
    /\ lockOwner' = ReleaseLocks(r)
    /\ UNCHANGED <<nextId, boot, served, faults>>

CommitFail(r) ==
    /\ InFlight(r) /\ req[r].pc = "commit"
    /\ req' = [req EXCEPT ![r] = ThrowInTry(r, "commit")]
    /\ faults < MaxFaults /\ faults' = faults + 1
    /\ UNCHANGED <<movies, nextId, lockOwner, boot, served, ledger>>

\* catch block: rollback resolves, 500 is sent, finally releases
CatchRollbackOk(r) ==
    /\ InFlight(r) /\ req[r].pc = "catch"
    /\ req' = [req EXCEPT ![r] = [Respond(r, 500) EXCEPT
                 !.tx = IF req[r].tx = "open" THEN "rolledback" ELSE @,
                 !.wrote = FALSE,
                 !.conn = "released", !.releases = @ + 1]]
    /\ lockOwner' = ReleaseLocks(r)
    /\ UNCHANGED <<movies, nextId, boot, served, faults, ledger>>

\* catch block: the rollback throws too.  The exception leaves the catch
\* block, the finally block still releases the connection, and the handler's
\* promise rejects.  Either the connection is dead and the server has
\* aborted the transaction, or the transaction is still open on the
\* connection that went back to the pool, row lock included.
CatchRollbackFail(r) ==
    /\ InFlight(r) /\ req[r].pc = "catch"
    /\ \E code \in RejectedStatus, aborted \in BOOLEAN :
         /\ req' = [req EXCEPT ![r] = [Respond(r, code) EXCEPT
                      !.fault = IF @ = "none" THEN "rollback" ELSE @,
                      !.tx = IF req[r].tx = "open" /\ aborted THEN "aborted" ELSE @,
                      !.wrote = IF aborted THEN FALSE ELSE @,
                      !.conn = "released", !.releases = @ + 1]]
         /\ lockOwner' = IF aborted THEN ReleaseLocks(r) ELSE lockOwner
    /\ faults < MaxFaults /\ faults' = faults + 1
    /\ UNCHANGED <<movies, nextId, boot, served, ledger>>

\* the steps of the handler whose store call succeeds
RateHandlerOk(r) ==
    \/ GetConnectionOk(r)
    \/ BeginTransactionOk(r)
    \/ SelectForUpdateOk(r)
    \/ NotFoundRollbackOk(r)
    \/ UpdateOk(r)
    \/ CommitOk(r)

\* the steps whose store call fails, and the catch block
RateHandlerFail(r) ==
    \/ GetConnectionFail(r)
    \/ BeginTransactionFail(r)
    \/ SelectForUpdateFail(r)
    \/ NotFoundRollbackFail(r)
    \/ UpdateFail(r)
    \/ CommitFail(r)
    \/ CatchRollbackOk(r) \/ CatchRollbackFail(r)

----------------------------------------------------------------------------
(* Text matching *)

LowerChar(c) ==
    CASE c = "C" -> "c" [] c = "D" -> "d" [] c = "F" -> "f" [] c = "I" -> "i"
      [] c = "N" -> "n" [] c = "P" -> "p" [] c = "S" -> "s" [] c = "T" -> "t"
      [] OTHER -> c

Lower(text) == [i \in 1..Len(text) |-> LowerChar(text[i])]

\* text LIKE '%term%' under the case-insensitive default collation; a NULL
\* column matches nothing
Like(text, term) ==
    /\ text # Null
    /\ \E i \in 1..(Len(text) + 1) :
         /\ i + Len(term) - 1 <= Len(text)
         /\ SubSeq(Lower(text), i, i + Len(term) - 1) = Lower(term)

\* !x of a text field: undefined or the empty string
Falsy(text) == text = Null \/ text = <<>>

----------------------------------------------------------------------------
(* backend/db.js: the catalog handlers, one db.query each (POST: two) *)

Columns ==
    {"title", "director", "year", "genre", "description", "poster_url",
     "average_rating", "num_ratings"}

\* a field of a JSON body: Null (NoYear for the year) when it is not given
Field(body, c) ==
    IF c \in DOMAIN body THEN body[c] ELSE IF c = "year" THEN NoYear ELSE Null

\* the texts of an INSERT fit their VARCHAR(255) columns; the server of the
\* README (mysql:latest, strict SQL mode) rejects the statement otherwise
FitsColumns(body) ==
    \A c \in {"title", "director", "genre", "poster_url"} :
        Len(Field(body, c)) <= VarcharLen

\* UPDATE movies SET ? with the request body as the assignment list
SetColumns(row, body) ==
    [c \in DOMAIN row |-> IF c \in DOMAIN body THEN body[c] ELSE row[c]]

\* GET /api/movies
ListReceive(r) ==
    /\ CanReceive(r) /\ boot.server = "backend/db.js"
    /\ served' = served + 1
    /\ req' = [req EXCEPT ![r] = [Idle EXCEPT !.pc = "q_list", !.kind = "list"]]
    /\ UNCHANGED <<movies, nextId, lockOwner, boot, faults, ledger>>

ListOk(r) ==
    /\ InFlight(r) /\ req[r].pc = "q_list"
    /\ req' = [req EXCEPT ![r] = [Respond(r, 200) EXCEPT !.out = SelectAll]]
    /\ UNCHANGED <<movies, nextId, lockOwner, boot, served, faults, ledger>>

\* GET /api/movies/search: q holds the query parameters as texts; the
\* handler reads the parameter term and no other
SearchReceive(r, q) ==
    /\ CanReceive(r) /\ boot.server = "backend/db.js"
    /\ served' = served + 1
    /\ LET term == Field(q, "term") IN
         req' = [req EXCEPT ![r] =
                   IF Falsy(term)
                   THEN [Idle EXCEPT !.pc = "done", !.kind = "search", !.body = q,
                                     !.term = term, !.status = 400]
                   ELSE [Idle EXCEPT !.pc = "q_search", !.kind = "search",
                                     !.body = q, !.term = term]]
    /\ UNCHANGED <<movies, nextId, lockOwner, boot, faults, ledger>>

SearchOk(r) ==
    /\ InFlight(r) /\ req[r].pc = "q_search"
    /\ req' = [req EXCEPT ![r] = [Respond(r, 200) EXCEPT !.out =
                 {row \in SelectAll : \/ Like(row.title, req[r].term)
                                      \/ Like(row.director, req[r].term)
                                      \/ Like(row.genre, req[r].term)}]]
    /\ UNCHANGED <<movies, nextId, lockOwner, boot, served, faults, ledger>>

\* POST /api/movies
CreateReceive(r, body) ==
    /\ CanReceive(r) /\ boot.server = "backend/db.js"
    /\ served' = served + 1
    /\ req' = [req EXCEPT ![r] =
                 IF Falsy(Field(body, "title")) \/ Falsy(Field(body, "director"))
                 THEN [Idle EXCEPT !.pc = "done", !.kind = "create", !.body = body,
                                   !.status = 400]
                 ELSE [Idle EXCEPT !.pc = "q_insert", !.kind = "create",
                                   !.body = body]]
    /\ UNCHANGED <<movies, nextId, lockOwner, boot, faults, ledger>>

\* the INSERT resolves: the row exists with the column defaults, insertId is
\* the AUTO_INCREMENT value; the SELECT of the new row is sent.  A text too
\* long for its column is an SQL error: the catch block answers 500
InsertOk(r) ==
    /\ InFlight(r) /\ req[r].pc = "q_insert"
    /\ nextId <= SeedRows + MaxCreated
    /\ LET b == req[r].body IN
         IF FitsColumns(b)
         THEN /\ movies' = [movies EXCEPT ![nextId] =
                             NewRow(Field(b, "title"), Field(b, "director"),
                                    Field(b, "year"), Field(b, "genre"),
                                    Field(b, "description"), Field(b, "poster_url"))]
              /\ nextId' = nextId + 1
              /\ req' = [req EXCEPT ![r].pc = "q_created", ![r].id = nextId]
         ELSE /\ req' = [req EXCEPT ![r] = Respond(r, 500)]
              /\ UNCHANGED <<movies, nextId>>
    /\ UNCHANGED <<lockOwner, boot, served, faults, ledger>>

\* the SELECT resolves: 201 with newMovie[0]
CreatedSelectOk(r) ==
    /\ InFlight(r) /\ req[r].pc = "q_created"
    /\ LET newMovie == SelectById(req[r].id) IN
         req' = [req EXCEPT ![r] = [Respond(r, 201) EXCEPT
                   !.out = {newMovie[i] : i \in 1..Len(newMovie)}]]
    /\ UNCHANGED <<movies, nextId, lockOwner, boot, served, faults, ledger>>

\* PUT /api/movies/:id: the body goes into the statement unchecked
PutReceive(r, id, body) ==
    /\ CanReceive(r) /\ boot.server = "backend/db.js"
    /\ served' = served + 1
    /\ req' = [req EXCEPT ![r] = [Idle EXCEPT !.pc = "q_put", !.kind = "put",
                                              !.id = id, !.body = body]]
    /\ UNCHANGED <<movies, nextId, lockOwner, boot, faults, ledger>>

\* the UPDATE is executed.  An empty assignment list or an unknown column is
\* an SQL error (500); otherwise the answer is 200, row or no row
PutOk(r) ==
    /\ InFlight(r) /\ req[r].pc = "q_put"
    /\ LET id == req[r].id
           body == req[r].body IN
         IF DOMAIN body = {} \/ ~(DOMAIN body \subseteq Columns)
         THEN /\ req' = [req EXCEPT ![r] = Respond(r, 500)]
              /\ UNCHANGED movies
         ELSE /\ req' = [req EXCEPT ![r] = Respond(r, 200)]
              /\ movies' = IF Exists(id)
                           THEN [movies EXCEPT ![id] = SetColumns(@, body)]
                           ELSE movies
    /\ UNCHANGED <<nextId, lockOwner, boot, served, faults, ledger>>

\* DELETE /api/movies/:id
DeleteReceive(r, id) ==
    /\ CanReceive(r) /\ boot.server = "backend/db.js"
    /\ served' = served + 1
    /\ req' = [req EXCEPT ![r] = [Idle EXCEPT !.pc = "q_delete", !.kind = "delete",
                                              !.id = id]]
    /\ UNCHANGED <<movies, nextId, lockOwner, boot, faults, ledger>>

DeleteOk(r) ==
    /\ InFlight(r) /\ req[r].pc = "q_delete"
    /\ movies' = IF Exists(req[r].id)
                 THEN [movies EXCEPT ![req[r].id] = NoMovie]
                 ELSE movies
    /\ req' = [req EXCEPT ![r] = Respond(r, 200)]
    /\ UNCHANGED <<nextId, lockOwner, boot, served, faults, ledger>>

\* the pending db.query of a catalog handler rejects: its catch answers 500
QueryFail(r) ==
    /\ InFlight(r)
    /\ req[r].pc \in {"q_list", "q_search", "q_insert", "q_created", "q_put", "q_delete"}
    /\ faults < MaxFaults /\ faults' = faults + 1
    /\ req' = [req EXCEPT ![r] = [Respond(r, 500) EXCEPT !.fault = "query"]]
    /\ UNCHANGED <<movies, nextId, lockOwner, boot, served, ledger>>

CatalogHandler(r) ==
    \/ ListOk(r) \/ SearchOk(r)
    \/ InsertOk(r) \/ CreatedSelectOk(r)
    \/ PutOk(r) \/ DeleteOk(r)
    \/ QueryFail(r)

----------------------------------------------------------------------------
(* server.js and the pool module it requires: startup *)

\* the synchronous body of server.js: require("./db") creates the pool and
\* issues pool.getConnection() (its promise is pending), the routes are
\* registered and app.listen(PORT) is called
LoadModules ==
    /\ boot.server = "server.js" /\ boot.pc = "load"
    /\ boot' = [boot EXCEPT !.pc = "listening", !.test = "pending"]
    /\ UNCHANGED <<movies, nextId, lockOwner, req, served, faults, ledger>>

\* .then of the pool's connection test: log and release
PoolTestOk ==
    /\ boot.pc = "listening" /\ boot.test = "pending"
    /\ boot' = [boot EXCEPT !.test = "ok", !.checks = @ + 1]
    /\ UNCHANGED <<movies, nextId, lockOwner, req, served, faults, ledger>>

\* .catch of the pool's connection test: process.exit(1)
PoolTestFail ==
    /\ boot.pc = "listening" /\ boot.test = "pending"
    /\ boot' = [boot EXCEPT !.test = "failed", !.pc = "exited"]
    /\ UNCHANGED <<movies, nextId, lockOwner, req, served, faults, ledger>>

serverStartup == LoadModules \/ PoolTestOk \/ PoolTestFail

----------------------------------------------------------------------------
(* server.js: POST /api/movies/:id/rate *)

\* isNaN(id) || parseInt(id, 10) <= 0
InvalidId(id) == id <= 0

validateRating(rating) ==
    IF \/ rating.type # "number"
       \/ ~IsInteger(rating)
       \/ rating.v < 100
       \/ rating.v > 500
    THEN "Rating must be an integer between 1 and 5."
    ELSE "null"

\* the handler up to its first await: both checks, then the SELECT is sent
SrvRateReceive(r, id, rating) ==
    /\ CanReceive(r)
    /\ boot.server = "server.js"
    /\ served' = served + 1
    /\ req' = [req EXCEPT ![r] =
                 IF InvalidId(id) \/ validateRating(rating) # "null"
                 THEN [Idle EXCEPT !.pc = "done", !.kind = "rate", !.id = id,
                                   !.rating = rating, !.status = 400]
                 ELSE [Idle EXCEPT !.pc = "s_select", !.kind = "rate", !.id = id,
                                   !.rating = rating]]
    /\ UNCHANGED <<movies, nextId, lockOwner, boot, faults, ledger>>

\* db.query("SELECT average_rating, num_ratings ...") resolves: 404 for no
\* row, else the new values are computed and the UPDATE is sent
SrvRateSelectOk(r) ==
    /\ InFlight(r) /\ req[r].pc = "s_select"
    /\ LET rows == SelectAggregate(req[r].id) IN
         req' = [req EXCEPT ![r] =
                   IF Len(rows) = 0
                   THEN Respond(r, 404)
                   ELSE [req[r] EXCEPT !.pc = "s_update", !.rows = rows,
                           !.newTotal = NewTotalRating(rows[1], req[r].rating),
                           !.newNum = NewNumRatings(rows[1])]]
    /\ UNCHANGED <<movies, nextId, lockOwner, boot, served, faults, ledger>>

\* a db.query of the handler rejects: the catch block answers 500
SrvRateSelectFail(r) ==
    /\ InFlight(r) /\ req[r].pc = "s_select"
    /\ faults < MaxFaults /\ faults' = faults + 1
    /\ req' = [req EXCEPT ![r] = [Respond(r, 500) EXCEPT !.fault = "select"]]
    /\ UNCHANGED <<movies, nextId, lockOwner, boot, served, ledger>>

\* db.query("UPDATE movies SET average_rating = ?, num_ratings = ? ...")
\* resolves: the statement is autocommitted; affectedRows decides the answer
SrvRateUpdateOk(r) ==
    /\ InFlight(r) /\ req[r].pc = "s_update"
    /\ LET id == req[r].id
           fixed == Round2(req[r].newTotal, req[r].newNum) IN
         IF Exists(id)
         THEN /\ movies' = [movies EXCEPT ![id].average_rating = fixed,
                                          ![id].num_ratings = req[r].newNum]
              /\ ledger' = Folded(id, req[r].rating)
              /\ req' = [req EXCEPT ![r] = [Respond(r, 200) EXCEPT
                           !.respAvg = fixed, !.respNum = req[r].newNum]]
         ELSE /\ req' = [req EXCEPT ![r] = Respond(r, 404)]
              /\ UNCHANGED <<movies, ledger>>
    /\ UNCHANGED <<nextId, lockOwner, boot, served, faults>>

SrvRateUpdateFail(r) ==
    /\ InFlight(r) /\ req[r].pc = "s_update"
    /\ faults < MaxFaults /\ faults' = faults + 1
    /\ req' = [req EXCEPT ![r] = [Respond(r, 500) EXCEPT !.fault = "update"]]
    /\ UNCHANGED <<movies, nextId, lockOwner, boot, served, ledger>>

SrvRateHandler(r) ==
    \/ SrvRateSelectOk(r) \/ SrvRateSelectFail(r)
    \/ SrvRateUpdateOk(r) \/ SrvRateUpdateFail(r)

----------------------------------------------------------------------------
(* server.js: validation and the catalog handlers *)

\* text.trim() === ""
IsBlank(text) == \A i \in 1..Len(text) : text[i] = " "

ImageExts ==
    {<<"j", "p", "g">>, <<"j", "p", "e", "g">>, <<"p", "n", "g">>,
     <<"g", "i", "f">>, <<"b", "m", "p">>, <<"w", "e", "b", "p">>}

Schemes ==
    {<<"h", "t", "t", "p", ":", "/", "/">>, <<"h", "t", "t", "p", "s", ":", "/", "/">>}

\* /^https?:\/\/.+\.(jpg|jpeg|png|gif|bmp|webp)$/i
IsImageUrl(text) ==
    \E pre \in Schemes, ext \in ImageExts :
        /\ Len(text) >= Len(pre) + 1 + 1 + Len(ext)
        /\ SubSeq(Lower(text), 1, Len(pre)) = pre
        /\ SubSeq(Lower(text), Len(text) - Len(ext), Len(text)) = <<".">> \o ext

validateMovieData(data, isNew) ==
    IF isNew /\ (Falsy(Field(data, "title")) \/ IsBlank(Field(data, "title")))
    THEN "Title is required and must be a non-empty string."
    ELSE IF isNew /\ (Falsy(Field(data, "director")) \/ IsBlank(Field(data, "director")))
    THEN "Director is required and must be a non-empty string."
    ELSE IF "year" \in DOMAIN data /\ data.year <= 0
    THEN "Year must be a positive integer."
    ELSE IF "genre" \in DOMAIN data /\ IsBlank(data.genre)
    THEN "Genre must be a non-empty string."
    ELSE IF "description" \in DOMAIN data /\ IsBlank(data.description)
    THEN "Description must be a non-empty string."
    ELSE IF "poster_url" \in DOMAIN data /\ ~IsImageUrl(data.poster_url)
    THEN "Poster URL must be a valid image URL (http/https)."
    ELSE "null"

Digits == <<"0", "1", "2", "3", "4", "5", "6", "7", "8", "9">>
IsDigit(c) == \E d \in 1..10 : Digits[d] = c
DigitValue(c) == (CHOOSE d \in 1..10 : Digits[d] = c) - 1

\* parseInt(text, 10): the value of the leading digits, NaN (-1) without any
RECURSIVE ParseDigits(_, _, _)
ParseDigits(text, i, acc) ==
    IF i > Len(text) \/ ~IsDigit(text[i]) THEN acc
    ELSE ParseDigits(text, i + 1, 10 * acc + DigitValue(text[i]))

NaN == -1
ParseInt(text) ==
    IF Len(text) = 0 \/ ~IsDigit(text[1]) THEN NaN ELSE ParseDigits(text, 1, 0)

\* GET /api/movies/search: q holds the query parameters title, director,
\* genre and year as texts
SrvSearchReceive(r, q) ==
    /\ CanReceive(r) /\ boot.server = "server.js"
    /\ served' = served + 1
    /\ LET year == Field(q, "yeartext")
           parsedYear == IF Falsy(year) THEN NaN ELSE ParseInt(year)
           params == {c \in {"title", "director", "genre"} : ~Falsy(Field(q, c))}
                       \cup (IF Falsy(year) THEN {} ELSE {"year"}) IN
         req' = [req EXCEPT ![r] =
                   IF ~Falsy(year) /\ (parsedYear = NaN \/ parsedYear <= 0)
                   THEN [Idle EXCEPT !.pc = "done", !.kind = "search", !.body = q,
                                     !.status = 400]
                   ELSE IF params = {}
                   THEN [Idle EXCEPT !.pc = "done", !.kind = "search", !.body = q,
                                     !.status = 400]
                   ELSE [Idle EXCEPT !.pc = "s_search", !.kind = "search",
                                     !.body = q, !.id = parsedYear]]
    /\ UNCHANGED <<movies, nextId, lockOwner, boot, faults, ledger>>

SrvSearchOk(r) ==
    /\ InFlight(r) /\ req[r].pc = "s_search"
    /\ LET q == req[r].body IN
         req' = [req EXCEPT ![r] = [Respond(r, 200) EXCEPT !.out =
                   {row \in SelectAll :
                      /\ Falsy(Field(q, "title")) \/ Like(row.title, q.title)
                      /\ Falsy(Field(q, "director")) \/ Like(row.director, q.director)
                      /\ Falsy(Field(q, "genre")) \/ Like(row.genre, q.genre)
                      /\ Falsy(Field(q, "yeartext")) \/ row.year = req[r].id}]]
    /\ UNCHANGED <<movies, nextId, lockOwner, boot, served, faults, ledger>>

\* GET /api/movies
SrvListReceive(r) ==
    /\ CanReceive(r) /\ boot.server = "server.js"
    /\ served' = served + 1
    /\ req' = [req EXCEPT ![r] = [Idle EXCEPT !.pc = "s_list", !.kind = "list"]]
    /\ UNCHANGED <<movies, nextId, lockOwner, boot, faults, ledger>>

SrvListOk(r) ==
    /\ InFlight(r) /\ req[r].pc = "s_list"
    /\ req' = [req EXCEPT ![r] = [Respond(r, 200) EXCEPT !.out = SelectAll]]
    /\ UNCHANGED <<movies, nextId, lockOwner, boot, served, faults, ledger>>

\* GET /api/movies/:id
SrvGetReceive(r, id) ==
    /\ CanReceive(r) /\ boot.server = "server.js"
    /\ served' = served + 1
    /\ req' = [req EXCEPT ![r] =
                 IF InvalidId(id)
                 THEN [Idle EXCEPT !.pc = "done", !.kind = "get", !.id = id,
                                   !.status = 400]
                 ELSE [Idle EXCEPT !.pc = "s_get", !.kind = "get", !.id = id]]
    /\ UNCHANGED <<movies, nextId, lockOwner, boot, faults, ledger>>

SrvGetOk(r) ==
    /\ InFlight(r) /\ req[r].pc = "s_get"
    /\ LET rows == SelectById(req[r].id) IN
         req' = [req EXCEPT ![r] =
                   IF Len(rows) = 0 THEN Respond(r, 404)
                   ELSE [Respond(r, 200) EXCEPT !.out = {rows[1]}]]
    /\ UNCHANGED <<movies, nextId, lockOwner, boot, served, faults, ledger>>

\* POST /api/movies
SrvCreateReceive(r, body) ==
    /\ CanReceive(r) /\ boot.server = "server.js"
    /\ served' = served + 1
    /\ req' = [req EXCEPT ![r] =
                 IF validateMovieData(body, TRUE) # "null"
                 THEN [Idle EXCEPT !.pc = "done", !.kind = "create", !.body = body,
                                   !.status = 400]
                 ELSE [Idle EXCEPT !.pc = "s_insert", !.kind = "create",
                                   !.body = body]]
    /\ UNCHANGED <<movies, nextId, lockOwner, boot, faults, ledger>>

\* the INSERT resolves: 201 with the record built from the request (not
\* read back from the table).  A text too long for its column is an SQL
\* error: the catch block answers 500
SrvInsertOk(r) ==
    /\ InFlight(r) /\ req[r].pc = "s_insert"
    /\ nextId <= SeedRows + MaxCreated
    /\ LET b == req[r].body
           row == NewRow(Field(b, "title"), Field(b, "director"),
                         Field(b, "year"), Field(b, "genre"),
                         Field(b, "description"), Field(b, "poster_url")) IN
         IF FitsColumns(b)
         THEN /\ movies' = [movies EXCEPT ![nextId] = row]
              /\ req' = [req EXCEPT ![r] = [Respond(r, 201) EXCEPT
                           !.id = nextId,
                           !.out = {[id |-> nextId,
                                     title |-> Field(b, "title"),
                                     director |-> Field(b, "director"),
                                     year |-> Field(b, "year"),
                                     genre |-> Field(b, "genre"),
                                     description |-> Field(b, "description"),
                                     poster_url |-> Field(b, "poster_url"),
                                     average_rating |-> 0, num_ratings |-> 0]}]]
              /\ nextId' = nextId + 1
         ELSE /\ req' = [req EXCEPT ![r] = Respond(r, 500)]
              /\ UNCHANGED <<movies, nextId>>
    /\ UNCHANGED <<lockOwner, boot, served, faults, ledger>>

UpdatableColumns ==
    {"title", "director", "year", "genre", "description", "poster_url"}

\* PUT /api/movies/:id
SrvPutReceive(r, id, body) ==
    /\ CanReceive(r) /\ boot.server = "server.js"
    /\ served' = served + 1
    /\ LET fieldsToUpdate == DOMAIN body \cap UpdatableColumns IN
         req' = [req EXCEPT ![r] =
                   IF \/ InvalidId(id)
                      \/ validateMovieData(body, FALSE) # "null"
                      \/ fieldsToUpdate = {}
                   THEN [Idle EXCEPT !.pc = "done", !.kind = "put", !.id = id,
                                     !.body = body, !.status = 400]
                   ELSE [Idle EXCEPT !.pc = "s_put", !.kind = "put", !.id = id,
                                     !.body = body]]
    /\ UNCHANGED <<movies, nextId, lockOwner, boot, faults, ledger>>

\* the UPDATE of the listed columns resolves; affectedRows counts the
\* matched rows
SrvPutOk(r) ==
    /\ InFlight(r) /\ req[r].pc = "s_put"
    /\ LET id == req[r].id
           body == req[r].body
           assigned == [c \in DOMAIN body \cap UpdatableColumns |-> body[c]] IN
         IF Exists(id)
         THEN /\ movies' = [movies EXCEPT ![id] = SetColumns(@, assigned)]
              /\ req' = [req EXCEPT ![r] = Respond(r, 200)]
         ELSE /\ req' = [req EXCEPT ![r] = Respond(r, 404)]
              /\ UNCHANGED movies
    /\ UNCHANGED <<nextId, lockOwner, boot, served, faults, ledger>>

\* DELETE /api/movies/:id
SrvDeleteReceive(r, id) ==
    /\ CanReceive(r) /\ boot.server = "server.js"
    /\ served' = served + 1
    /\ req' = [req EXCEPT ![r] =
                 IF InvalidId(id)
                 THEN [Idle EXCEPT !.pc = "done", !.kind = "delete", !.id = id,
                                   !.status = 400]
                 ELSE [Idle EXCEPT !.pc = "s_delete", !.kind = "delete", !.id = id]]
    /\ UNCHANGED <<movies, nextId, lockOwner, boot, faults, ledger>>

SrvDeleteOk(r) ==
    /\ InFlight(r) /\ req[r].pc = "s_delete"
    /\ IF Exists(req[r].id)
       THEN /\ movies' = [movies EXCEPT ![req[r].id] = NoMovie]
            /\ req' = [req EXCEPT ![r] = Respond(r, 200)]
       ELSE /\ req' = [req EXCEPT ![r] = Respond(r, 404)]
            /\ UNCHANGED movies
    /\ UNCHANGED <<nextId, lockOwner, boot, served, faults, ledger>>

\* the pending db.query of a catalog handler rejects: its catch answers 500
SrvQueryFail(r) ==
    /\ InFlight(r)
    /\ req[r].pc \in {"s_search", "s_list", "s_get", "s_insert", "s_put", "s_delete"}
    /\ faults < MaxFaults /\ faults' = faults + 1
    /\ req' = [req EXCEPT ![r] = [Respond(r, 500) EXCEPT !.fault = "query"]]
    /\ UNCHANGED <<movies, nextId, lockOwner, boot, served, ledger>>

SrvCatalogHandler(r) ==
    \/ SrvSearchOk(r) \/ SrvListOk(r) \/ SrvGetOk(r)
    \/ SrvInsertOk(r) \/ SrvPutOk(r) \/ SrvDeleteOk(r)
    \/ SrvQueryFail(r)

----------------------------------------------------------------------------
(* Spec: backend/db.js started by startServer, serving rating submissions *)

\* the ids the rating requests of the model address: a seeded row and an
\* id no row has
AbsentId == SeedRows + MaxCreated + 1
RateIds == {1, AbsentId}

\* the rating fields the concurrent requests of the model carry
RatingInputs == {Num(200), Num(500)}

Init ==
    /\ movies = SeedMovies
    /\ nextId = SeedRows + 1
    /\ lockOwner = [i \in Ids |-> 0]
    /\ req = [r \in ReqIds |-> Idle]
    /\ boot = [server |-> "backend/db.js", pc |-> "connect", retries |-> Retries,
               checks |-> 0, test |-> "none"]
    /\ served = 0
    /\ faults = 0
    /\ ledger = [i \in Ids |-> [sum |-> 0, n |-> 0, invalid |-> 0]]

Next ==
    \/ connectWithRetry
    \/ \E r \in ConcReqIds, id \in RateIds, rating \in RatingInputs :
         RateReceive(r, id, rating)
    \/ \E r \in ConcReqIds : RateHandlerOk(r)

Spec == Init /\ [][Next]_vars

----------------------------------------------------------------------------
(* SpecFaults: backend/db.js serving rating submissions while store calls  *)
(* fail                                                                    *)

NextFaults ==
    \/ connectWithRetry
    \/ \E r \in FaultReqIds, id \in RateIds, rating \in RatingInputs :
         RateReceive(r, id, rating)
    \/ \E r \in FaultReqIds : RateHandlerOk(r) \/ RateHandlerFail(r)

SpecFaults == Init /\ [][NextFaults]_vars

----------------------------------------------------------------------------
(* SpecSrv: server.js serving rating submissions while store calls fail *)

InitSrv ==
    /\ movies = SeedMovies
    /\ nextId = SeedRows + 1
    /\ lockOwner = [i \in Ids |-> 0]
    /\ req = [r \in ReqIds |-> Idle]
    /\ boot = [server |-> "server.js", pc |-> "load", retries |-> 0,
               checks |-> 0, test |-> "none"]
    /\ served = 0
    /\ faults = 0
    /\ ledger = [i \in Ids |-> [sum |-> 0, n |-> 0, invalid |-> 0]]

NextSrv ==
    \/ serverStartup
    \/ \E r \in FaultReqIds, id \in RateIds, rating \in RatingInputs :
         SrvRateReceive(r, id, rating)
    \/ \E r \in FaultReqIds : SrvRateHandler(r)

SpecSrv == InitSrv /\ [][NextSrv]_vars

----------------------------------------------------------------------------
(* SpecSeq: either server, one client that submits its next rating after   *)
(* the answer to the previous one; no store call fails                     *)

\* every kind of rating field: integers of the range, a fraction, values
\* outside the range, and no rating at all
AllRatingInputs ==
    {Num(100), Num(200), Num(300), Num(400), Num(500),
     Num(250), Num(0), Num(600), Num(-100), Undefined}

\* the client has its answer; the finished request is forgotten
NextSubmission ==
    /\ boot.pc = "listening"
    /\ req[1].pc = "done"
    /\ served < MaxSeq
    /\ req' = [req EXCEPT ![1] = Idle]
    /\ UNCHANGED <<movies, nextId, lockOwner, boot, served, faults, ledger>>

InitSeq == InitSrv \/ Init

NextSeq ==
    \/ ConnectOk
    \/ LoadModules \/ PoolTestOk
    \/ NextSubmission
    \/ \E id \in RateIds, rating \in AllRatingInputs :
         RateReceive(1, id, rating) \/ SrvRateReceive(1, id, rating)
    \/ GetConnectionOk(1) \/ BeginTransactionOk(1) \/ SelectForUpdateOk(1)
    \/ NotFoundRollbackOk(1) \/ UpdateOk(1) \/ CommitOk(1)
    \/ SrvRateSelectOk(1) \/ SrvRateUpdateOk(1)

SpecSeq == InitSeq /\ [][NextSeq]_vars

----------------------------------------------------------------------------
(* SpecCrud: either server, one client that issues catalog operations and  *)
(* ratings one after another                                               *)

CrudIds == {1, AbsentId}

X == <<"X">>
Y == <<"Y">>
PutBodies ==
    {[title |-> X],
     [year |-> 1994, genre |-> Drama],
     [average_rating |-> 0, num_ratings |-> 0],
     [average_rating |-> 500, num_ratings |-> 1],
     [title |-> X, average_rating |-> 100, num_ratings |-> 0],
     [average_rating |-> 600],
     EmptyBody}

CreateBodies ==
    {[title |-> X, director |-> Y],
     [title |-> X, director |-> Y, year |-> 1994, genre |-> Drama,
      description |-> <<"d">>, poster_url |-> Poster],
     [director |-> Y]}

\* query strings of the search requests: the parameters of server.js
\* (title, director, genre, year) and the parameter term of backend/db.js
SearchQueries ==
    {[yeartext |-> <<"1", "9", "9", "4">>],
     [title |-> <<"i", "o", "n">>, genre |-> <<"c", "r", "i">>],
     [yeartext |-> <<"x">>],
     [term |-> <<"p", "u", "l", "p">>],
     [term |-> <<"a", "r", "a">>],
     EmptyBody}

CrudRatings == {Num(200), Num(500)}

\* the client has its answer; the finished request is forgotten
NextOperation ==
    /\ boot.pc = "listening"
    /\ req[1].pc = "done"
    /\ served < MaxOps
    /\ req' = [req EXCEPT ![1] = Idle]
    /\ UNCHANGED <<movies, nextId, lockOwner, boot, served, faults, ledger>>

CrudReceive ==
    \/ ListReceive(1) \/ SrvListReceive(1)
    \/ \E q \in SearchQueries : SearchReceive(1, q) \/ SrvSearchReceive(1, q)
    \/ \E body \in CreateBodies : CreateReceive(1, body) \/ SrvCreateReceive(1, body)
    \/ \E id \in CrudIds, body \in PutBodies :
         PutReceive(1, id, body) \/ SrvPutReceive(1, id, body)
    \/ \E id \in CrudIds : DeleteReceive(1, id) \/ SrvDeleteReceive(1, id)
    \/ \E id \in CrudIds : SrvGetReceive(1, id)
    \/ \E id \in CrudIds, rating \in CrudRatings :
         RateReceive(1, id, rating) \/ SrvRateReceive(1, id, rating)

NextCrud ==
    \/ ConnectOk
    \/ LoadModules \/ PoolTestOk
    \/ NextOperation
    \/ CrudReceive
    \/ CatalogHandler(1)
    \/ SrvCatalogHandler(1)
    \/ RateHandlerOk(1)
    \/ SrvRateSelectOk(1) \/ SrvRateUpdateOk(1)

SpecCrud == InitSeq /\ [][NextCrud]_vars

----------------------------------------------------------------------------
(* SpecItems: either server, submissions to two different rows.  For       *)
(* backend/db.js the first connectionLimit submissions address row         *)
(* BusyItem and the later ones row OtherItem; a submission arrives once    *)
(* the earlier ones have sent their SELECT, and the run is followed until  *)
(* MaxAnswered submissions have their answer.  No store call fails.        *)

BusyItem == 1
OtherItem == 2

ItemOf(r) == IF r <= connectionLimit THEN BusyItem ELSE OtherItem

Answered == Cardinality({r \in ReqIds : req[r].pc = "done"})

ItemsReceive ==
    \/ \E r \in PoolReqIds :
         /\ \A q \in PoolReqIds : q < r => req[q].pc \notin {"getconn", "begin"}
         /\ RateReceive(r, ItemOf(r), Num(500))
    \/ \E r \in FaultReqIds, id \in {BusyItem, OtherItem} :
         SrvRateReceive(r, id, Num(400))

NextItems ==
    \/ ConnectOk
    \/ LoadModules \/ PoolTestOk
    \/ ItemsReceive
    \/ \E r \in PoolReqIds :
         /\ req[r].pc = "commit" => Answered < MaxAnswered
         /\ RateHandlerOk(r)
    \/ \E r \in FaultReqIds : SrvRateSelectOk(r) \/ SrvRateUpdateOk(r)

SpecItems == InitSeq /\ [][NextItems]_vars

----------------------------------------------------------------------------
(* SpecScenario: either server, one client that submits the ratings of     *)
(* Scenario, in their order, to one of the seeded rows                     *)

Scenario == <<Num(400), Num(200), Num(500)>>

ScenarioIds == 1..SeedRows

ScenarioReceive ==
    \E id \in ScenarioIds :
        /\ served < Len(Scenario)
        /\ \A j \in Ids : j # id => ledger[j].n = 0
        /\ \/ RateReceive(1, id, Scenario[served + 1])
           \/ SrvRateReceive(1, id, Scenario[served + 1])

NextScenario ==
    \/ connectWithRetry
    \/ serverStartup
    \/ NextSubmission
    \/ ScenarioReceive
    \* the rows of the scenario exist and nothing deletes them: the 404
    \* branch of the handler is not part of it
    \/ GetConnectionOk(1) \/ BeginTransactionOk(1) \/ SelectForUpdateOk(1)
    \/ UpdateOk(1) \/ CommitOk(1)
    \/ SrvRateSelectOk(1) \/ SrvRateUpdateOk(1)

SpecScenario == InitSeq /\ [][NextScenario]_vars

\* SpecStartup: the same, and the pending step of connectWithRetry is
\* eventually taken: the attempt's promise settles (mysql2 bounds a connect
\* by its timeout) and the 5 second timer fires
SpecStartup == InitSeq /\ [][NextScenario]_vars /\ WF_vars(connectWithRetry)

----------------------------------------------------------------------------
(* SpecRoundTrip: either server, one client that creates a movie and then  *)
(* reads it: by the id of the 201 response (server.js) or in the list      *)

LongTitle == [i \in 1..(VarcharLen + 1) |-> "a"]

RoundTripBodies ==
    {[title |-> X, director |-> Y],
     [title |-> X, director |-> Y, year |-> 1994],
     [title |-> Inception, director |-> Nolan, genre |-> SciFi],
     [title |-> X, director |-> Y, year |-> 2010, genre |-> Drama,
      description |-> <<"d">>, poster_url |-> Poster],
     [title |-> LongTitle, director |-> Y],
     [title |-> X],
     [title |-> X, director |-> Y, poster_url |-> <<"p">>]}

RoundTripCreate ==
    \E body \in RoundTripBodies : CreateReceive(1, body) \/ SrvCreateReceive(1, body)

\* the client reads what it created, with the id of the 201 response
RoundTripFetch ==
    /\ req[1].kind = "create" /\ req[1].pc = "done" /\ req[1].status = 201
    /\ \/ SrvGetReceive(2, req[1].id)
       \/ ListReceive(2) \/ SrvListReceive(2)

NextRoundTrip ==
    \/ connectWithRetry
    \/ serverStartup
    \/ RoundTripCreate
    \/ InsertOk(1) \/ CreatedSelectOk(1) \/ SrvInsertOk(1)
    \/ RoundTripFetch
    \/ SrvGetOk(2) \/ ListOk(2) \/ SrvListOk(2)

SpecRoundTrip == InitSeq /\ [][NextRoundTrip]_vars

----------------------------------------------------------------------------
(* Properties *)

\* every submission of the concurrent workload has finished
AllDone == \A r \in ConcReqIds : req[r].pc = "done"

\* the submissions to row id that were answered 200
Succeeded(id) ==
    {r \in ReqIds : req[r].kind = "rate" /\ req[r].id = id /\ req[r].status = 200}

Aggregate(id) ==
    [average_rating |-> movies[id].average_rating,
     num_ratings |-> movies[id].num_ratings]

Fresh == [average_rating |-> 0, num_ratings |-> 0]

\* C1 (Spec): transactional rate handler, no lost update.  In every
\* reachable state the num_ratings of an existing row equals its value at
\* creation (0) plus the number of submissions to it answered 200, and a
\* valid submission to an existing row that met no failing store call is
\* answered 200; so K concurrent valid submissions that all completed leave
\* num_ratings at the original value plus K, whatever the interleaving.
C1_NoLostUpdate ==
    /\ \A id \in Ids :
         Exists(id) => movies[id].num_ratings = Cardinality(Succeeded(id))
    /\ \A r \in ReqIds :
         (/\ req[r].pc = "done" /\ req[r].kind = "rate" /\ Exists(req[r].id)
          /\ ValidRating(req[r].rating) /\ req[r].fault = "none")
         => req[r].status = 200

\* all MaxReqs submissions went to row 1, all completed with 200
C1_Witness ==
    /\ AllDone
    /\ Cardinality(Succeeded(1)) = MaxReqs
    /\ movies[1].num_ratings = MaxReqs

\* C2 (SpecSrv): the claim, that server.js serializes the updates of one
\* row: no two submissions are both past their SELECT with the same
\* (average_rating, num_ratings) read for the same row, and num_ratings
\* counts every submission answered 200.
C2_SrvUpdatesSerialized ==
    /\ \A r, q \in ReqIds :
         (/\ r # q
          /\ req[r].pc = "s_update" /\ req[q].pc = "s_update"
          /\ req[r].id = req[q].id)
         => req[r].rows # req[q].rows
    /\ \A id \in Ids :
         Exists(id) => movies[id].num_ratings = Cardinality(Succeeded(id))

\* C3 (SpecSeq): the claim, that after valid ratings r1..rN submitted one
\* after another to a fresh row, num_ratings = N and average_rating =
\* round2((r1 + ... + rN) / N), and average_rating = 0.00 for N = 0.
C3_AverageIsRoundedMean ==
    \A id \in Ids :
        (Exists(id) /\ ledger[id].invalid = 0) =>
            /\ movies[id].num_ratings = ledger[id].n
            /\ movies[id].average_rating =
                 IF ledger[id].n = 0 THEN 0
                 ELSE RoundDiv(ledger[id].sum, ledger[id].n)

\* the fold step as the claim words it: newN = N + 1,
\* newA = round2((A * N + rating) / newN)
C4_FoldStep(agg, rating) ==
    [average_rating |->
        RoundDiv(agg.average_rating * agg.num_ratings + rating, agg.num_ratings + 1),
     num_ratings |-> agg.num_ratings + 1]

\* the results of folding the ratings of the requests S, one at a time, in
\* every order
RECURSIVE C4_SerialResults(_, _)
C4_SerialResults(S, agg) ==
    IF S = {} THEN {agg}
    ELSE UNION {C4_SerialResults(S \ {r}, C4_FoldStep(agg, req[r].rating.v)) : r \in S}

\* C4 (Spec): in every reachable state the (average_rating, num_ratings) of
\* an existing row is the result of folding the ratings of the submissions
\* answered 200, one at a time in some order, into the fresh aggregate; in
\* particular the final state of K concurrent submissions is a serial result.
C4_SerialEquivalence ==
    \A id \in Ids :
        Exists(id) => Aggregate(id) \in C4_SerialResults(Succeeded(id), Fresh)

\* MaxReqs submissions to row 1 all completed, not all with the same rating
C4_Witness ==
    /\ AllDone
    /\ Cardinality(Succeeded(1)) = MaxReqs
    /\ \E r, q \in Succeeded(1) : req[r].rating # req[q].rating
    /\ Aggregate(1) # Fresh

\* C5 (SpecSeq): the claim, that both rate handlers reject a rating that is
\* no integer of 1..5 with 400 at once, and that no such rating is ever
\* folded into a row's aggregate.
C5_InvalidRatingRejected ==
    /\ \A r \in ReqIds :
         (req[r].kind = "rate" /\ ~ValidRating(req[r].rating))
         => (req[r].pc = "done" /\ req[r].status = 400)
    /\ \A id \in Ids : ledger[id].invalid = 0

\* C6 (SpecSeq): a valid rating for an id that has no row is answered 404;
\* in the transactional handler the transaction is then rolled back, the
\* connection released once and no row lock kept; and no step of such a
\* request changes the movies table.
C6_NotFoundState ==
    \A r \in ReqIds :
        (/\ req[r].kind = "rate" /\ req[r].pc = "done"
         /\ ~Exists(req[r].id) /\ ValidRating(req[r].rating))
        => /\ req[r].status = 404
           /\ boot.server = "backend/db.js" =>
                /\ req[r].tx = "rolledback"
                /\ req[r].conn = "released" /\ req[r].releases = 1
                /\ \A id \in Ids : lockOwner[id] # r

C6_NotFoundStep ==
    \A r \in ReqIds :
        (/\ req[r].kind = "rate" /\ ~Exists(req[r].id)
         /\ req'[r] # req[r])
        => movies' = movies

C6_NotFound == [][C6_NotFoundStep]_vars /\ []C6_NotFoundState

\* the transactional handler answered 404 for the absent id
C6_Witness ==
    /\ boot.server = "backend/db.js"
    /\ req[1].pc = "done" /\ req[1].status = 404
    /\ req[1].id = AbsentId /\ ValidRating(req[1].rating)
    /\ req[1].tx = "rolledback" /\ req[1].releases = 1

\* C7 (SpecCrud): the claim, that no step of a create, update, search or
\* list request changes the average_rating or num_ratings of an existing
\* row, and that the num_ratings of a row never decreases while it exists.
C7_FrameStep ==
    \A id \in Ids :
        (Exists(id) /\ movies'[id] # NoMovie) =>
            /\ movies'[id].num_ratings >= movies[id].num_ratings
            /\ \A r \in ReqIds :
                 (/\ req[r].kind \in {"create", "put", "search", "list"}
                  /\ req'[r] # req[r])
                 => /\ movies'[id].average_rating = movies[id].average_rating
                    /\ movies'[id].num_ratings = movies[id].num_ratings

C7_OnlyRatingWrites == [][C7_FrameStep]_vars

\* C8 (SpecFaults): the claim, that every request that acquired a connection and
\* has finished ended its transaction in commit or rollback, released the
\* connection exactly once and holds no row lock.
C8_TxEndedAndReleased ==
    \A r \in ReqIds :
        (req[r].pc = "done" /\ req[r].conn # "none")
        => /\ req[r].tx # "open"
           /\ req[r].conn = "released" /\ req[r].releases = 1
           /\ \A id \in Ids : lockOwner[id] # r

\* C9 (SpecFaults): the claim, that a submission whose getConnection rejected or
\* whose commit failed is answered with a 5xx, and that the committed
\* aggregate holds only the submissions answered 200.
C9_StoreUnavailable ==
    /\ \A r \in ReqIds :
         (req[r].pc = "done" /\ req[r].fault \in {"getConnection", "commit"})
         => req[r].status = 500
    /\ \A id \in Ids :
         Exists(id) => Aggregate(id) \in C4_SerialResults(Succeeded(id), Fresh)

\* C10 (SpecSrv): the claim, that the process listens only after a
\* connectivity check has succeeded.
C10_ListenAfterCheck == boot.pc = "listening" => boot.checks >= 1

\* a row without its aggregate
NonAggregate(row) == [row EXCEPT !.average_rating = 0, !.num_ratings = 0]

\* request r is in flight and no step of its handler can be taken
Waits(r) ==
    /\ InFlight(r)
    /\ ~ENABLED (RateHandlerOk(r) \/ SrvRateSelectOk(r) \/ SrvRateUpdateOk(r))

\* the requests whose transaction has to end before the waiting r goes on:
\* the holders of the pooled connections, or the holder of the row lock
Blockers(r) ==
    IF req[r].pc = "getconn"
    THEN {q \in ReqIds : req[q].conn = "held"}
    ELSE {q \in ReqIds : q # r /\ req[r].id \in Ids /\ lockOwner[req[r].id] = q}

\* only ratings are submitted: every row keeps the other fields it was
\* seeded with, and a row no submission succeeded on keeps its aggregate
C11_FrameState ==
    \A id \in Ids :
        Exists(id) =>
            /\ NonAggregate(movies[id]) = NonAggregate(SeedMovies[id])
            /\ Succeeded(id) = {} => movies[id] = SeedMovies[id]

\* C11 as claimed (SpecItems): a successful submission changes only the two
\* aggregate fields of its own row, and a submission that waits never waits
\* for a submission to a different row to finish.
C11_NeverWaitsForOtherItem ==
    /\ C11_FrameState
    /\ \A r \in ReqIds :
         Waits(r) => \A q \in Blockers(r) : req[q].id = req[r].id

\* C11 as amended (SpecItems): a successful submission changes only the two
\* aggregate fields of its own row; a submission that waits either waits at
\* its SELECT for the row lock held by a submission to the same row, or
\* waits at getConnection while all connectionLimit pooled connections are
\* in use, whatever rows their holders address.
C11_WaitsOnlyForOwnRowOrPool ==
    /\ C11_FrameState
    /\ \A r \in ReqIds :
         Waits(r) =>
            \/ /\ req[r].pc = "select"
               /\ \E q \in ReqIds \ {r} :
                    /\ lockOwner[req[r].id] = q
                    /\ InFlight(q) /\ req[q].id = req[r].id
            \/ /\ req[r].pc = "getconn"
               /\ PooledInUse = connectionLimit

\* a submission to OtherItem was answered 200 while a submission to BusyItem
\* held its row lock and another one waited for that lock
C11_Witness ==
    /\ \E r \in ReqIds : req[r].id = OtherItem /\ req[r].status = 200
    /\ movies[OtherItem].num_ratings = 1
    /\ movies[OtherItem].title = SeedMovies[OtherItem].title
    /\ lockOwner[BusyItem] # 0
    /\ \E w \in ReqIds : Waits(w) /\ req[w].pc = "select" /\ req[w].id = BusyItem

\* the aggregates of the scenario, after its 1st, 2nd and 3rd rating
C12_Expected ==
    <<[average_rating |-> 400, num_ratings |-> 1],
      [average_rating |-> 300, num_ratings |-> 2],
      [average_rating |-> 367, num_ratings |-> 3]>>

\* C12 (SpecScenario): the ratings 4, 2, 5 submitted one after another to a
\* fresh row: every submission is answered 200, the k-th response carries
\* the k-th pair of (4.00, 1), (3.00, 2), (3.67, 3), and the stored
\* aggregate of the row after k submissions is that same pair.
C12_ScenarioAggregates ==
    /\ \A id \in ScenarioIds :
         Aggregate(id) = IF ledger[id].n = 0 THEN Fresh
                         ELSE C12_Expected[ledger[id].n]
    /\ req[1].pc = "done" =>
         /\ req[1].status = 200
         /\ ledger[req[1].id].n = served
         /\ [average_rating |-> req[1].respAvg, num_ratings |-> req[1].respNum]
              = C12_Expected[served]

\* the third rating was answered, by the transactional handler
C12_Witness ==
    /\ boot.server = "backend/db.js"
    /\ served = Len(Scenario) /\ req[1].pc = "done"
    /\ req[1].respAvg = 367 /\ req[1].respNum = 3
    /\ \E id \in ScenarioIds : Aggregate(id) = C12_Expected[3]

\* C13 (SpecCrud): the claim, that every stored row has average_rating in
\* [0.00, 5.00] and num_ratings >= 0, and that the row a create request was
\* answered with (201) carries the aggregate (0.00, 0).
C13_AggregateInRange ==
    /\ \A id \in Ids :
         Exists(id) =>
            /\ movies[id].average_rating >= 0
            /\ movies[id].average_rating <= 500
            /\ movies[id].num_ratings >= 0
    /\ \A r \in ReqIds :
         (req[r].kind = "create" /\ req[r].pc = "done" /\ req[r].status = 201)
         => \A row \in req[r].out :
              row.average_rating = 0 /\ row.num_ratings = 0

\* the criteria a search request supplies
C14_Criteria(q) ==
    {c \in {"title", "director", "genre", "yeartext"} : ~Falsy(Field(q, c))}

\* the year criterion is the decimal numeral of a positive integer
C14_YearIsNumeral(q) ==
    "yeartext" \in C14_Criteria(q) =>
        /\ \A i \in 1..Len(q.yeartext) : IsDigit(q.yeartext[i])
        /\ ParseInt(q.yeartext) > 0

\* the stored rows that match every criterion of q
C14_Matching(q) ==
    {row \in SelectAll :
        /\ "title" \in C14_Criteria(q) => Like(row.title, q.title)
        /\ "director" \in C14_Criteria(q) => Like(row.director, q.director)
        /\ "genre" \in C14_Criteria(q) => Like(row.genre, q.genre)
        /\ "yeartext" \in C14_Criteria(q) => row.year = ParseInt(q.yeartext)}

\* C14 (SpecCrud): the claim, that a search request without any of the
\* criteria title, director, genre, year is answered 400 with no rows, and
\* that a search with criteria (the year, if given, a numeral) is answered
\* 200 with exactly the stored rows that match every criterion.
C14_SearchResult ==
    \A r \in ReqIds :
        (req[r].kind = "search" /\ req[r].pc = "done" /\ req[r].fault = "none")
        => IF C14_Criteria(req[r].body) = {}
           THEN req[r].status = 400 /\ req[r].out = {}
           ELSE C14_YearIsNumeral(req[r].body) =>
                   /\ req[r].status = 200
                   /\ req[r].out = C14_Matching(req[r].body)

\* the step in which the store has executed the statement of a PUT or
\* DELETE request r without an error and the handler sends its response
C15_Answered(r) ==
    /\ req[r].kind \in {"put", "delete"}
    /\ req[r].pc \in {"q_put", "q_delete", "s_put", "s_delete"}
    /\ req'[r].pc = "done" /\ req'[r].status # 500

C15_AbsentStep ==
    \A r \in ReqIds :
        C15_Answered(r) =>
            /\ ~Exists(req[r].id) => (req'[r].status = 404 /\ movies' = movies)
            /\ (req[r].kind = "delete" /\ Exists(req[r].id)) =>
                   (req'[r].status = 200 /\ movies'[req[r].id] = NoMovie)

\* C15 (SpecCrud): the claim, that a DELETE or PUT addressed to an id with
\* no row is answered 404 and changes no row, and that a DELETE of an
\* existing row is answered 200 and removes it (so that a second DELETE of
\* the id meets no row and is answered 404).
C15_AbsentIs404 == [][C15_AbsentStep]_vars

\* the record of a create request: the submitted fields (NULL where none
\* was submitted), the id the server assigned and the default aggregate
C16_Record(id, body) ==
    [id |-> id, title |-> Field(body, "title"), director |-> Field(body, "director"),
     year |-> Field(body, "year"), genre |-> Field(body, "genre"),
     description |-> Field(body, "description"),
     poster_url |-> Field(body, "poster_url"),
     average_rating |-> 0, num_ratings |-> 0]

\* C16 (SpecRoundTrip): when a create request was answered 201, the body of
\* the response is the record of the submitted fields with the assigned id
\* and the aggregate (0.00, 0), and a fetch of that id (by id, or in the
\* list) that follows returns the same record.
C16_CreateFetchRoundTrip ==
    (req[1].kind = "create" /\ req[1].pc = "done" /\ req[1].status = 201) =>
        /\ req[1].out = {C16_Record(req[1].id, req[1].body)}
        /\ (req[2].kind = "get" /\ req[2].pc = "done") =>
              (req[2].status = 200 /\ req[2].out = req[1].out)
        /\ (req[2].kind = "list" /\ req[2].pc = "done") =>
              {row \in req[2].out : row.id = req[1].id} = req[1].out

\* a record with every optional field was created and fetched by its id
C16_Witness ==
    /\ req[1].kind = "create" /\ req[1].status = 201
    /\ DOMAIN req[1].body = {"title", "director", "year", "genre",
                             "description", "poster_url"}
    /\ req[2].kind = "get" /\ req[2].pc = "done" /\ req[2].status = 200
    /\ \E row \in req[2].out : row.genre = Drama /\ row.year = 2010

\* a step of the startup of backend/db.js
C17_StartupStep ==
    (boot.server = "backend/db.js" /\ boot' # boot) =>
        \* an attempt is made only with retries left; it either succeeds
        \* and the server listens at once, or it costs one retry and is
        \* followed by the backoff, or by exit(1) when it was the last
        /\ boot.pc = "connect" =>
             /\ boot.retries >= 1
             /\ \/ /\ boot'.pc = "listening"
                   /\ boot'.checks = boot.checks + 1
                \/ /\ boot'.retries = boot.retries - 1
                   /\ boot'.checks = boot.checks
                   /\ boot'.pc = IF boot'.retries = 0 THEN "exited" ELSE "backoff"
        \* one backoff, then the next attempt
        /\ boot.pc = "backoff" =>
             (boot'.pc = "connect" /\ boot'.retries = boot.retries)
        \* no attempt after the success or after the exit
        /\ boot.pc \notin {"listening", "exited"}

C17_StartupState ==
    boot.server = "backend/db.js" =>
        /\ boot.retries \in 0..Retries
        /\ boot.pc \in {"connect", "backoff"} => (boot.retries >= 1 /\ served = 0)
        /\ boot.pc = "exited" => (boot.retries = 0 /\ boot.checks = 0 /\ served = 0)
        /\ boot.pc = "listening" => boot.checks = 1

\* C17 (SpecStartup): connectWithRetry makes an attempt only while retries
\* (5 at the start) is at least 1 and every failed attempt takes one away,
\* so at most 5 attempts are made; a successful attempt makes the server
\* listen at once; a failed attempt is followed by one backoff and the next
\* attempt, or, when it was the 5th, by exit(1), after which nothing runs
\* and the server never listened; and the loop ends in every execution:
\* the process is eventually listening or has exited.
C17_BoundedRetry ==
    /\ [][C17_StartupStep]_vars
    /\ []C17_StartupState
    /\ [](boot.server = "backend/db.js" => <>(boot.pc \in {"listening", "exited"}))

\* all Retries attempts failed and the process has exited
C17_Witness ==
    /\ boot.server = "backend/db.js"
    /\ boot.pc = "exited" /\ boot.retries = 0 /\ boot.checks = 0

\* the step in which request r is answered 200
C18_SuccessStep ==
    \A r \in ReqIds :
        (/\ boot.server = "backend/db.js" /\ req[r].kind = "rate"
         /\ req[r].status # 200 /\ req'[r].status = 200)
        => /\ req[r].pc = "commit" /\ req[r].tx = "open" /\ req[r].wrote
           /\ req'[r].tx = "committed"
           /\ movies'[req[r].id].num_ratings = req'[r].respNum
           /\ movies'[req[r].id].average_rating = req'[r].respAvg
           /\ req'[r].respNum = movies[req[r].id].num_ratings + 1

C18_SuccessState ==
    boot.server = "backend/db.js" =>
        /\ \A r \in ReqIds :
             (req[r].kind = "rate" /\ req[r].status = 200) => req[r].tx = "committed"
        /\ \A id \in Ids :
             Exists(id) =>
                /\ \A r, q \in Succeeded(id) : r # q => req[r].respNum # req[q].respNum
                /\ {req[r].respNum : r \in Succeeded(id)}
                      = 1..Cardinality(Succeeded(id))

\* C18 (Spec): in the transactional handler a submission is answered 200
\* only in the step that commits its transaction, the new_num_ratings of
\* the response is the num_ratings that commit stores (one more than the
\* committed count before it), and the responses to the K successful
\* submissions to a row seeded with count 0 carry the pairwise distinct
\* values 1..K.
C18_ResponseAfterCommit == [][C18_SuccessStep]_vars /\ []C18_SuccessState

\* MaxReqs concurrent submissions to row 1 were all answered 200
C18_Witness ==
    /\ \A r \in ConcReqIds : req[r].kind = "rate" /\ req[r].status = 200 /\ req[r].id = 1
    /\ {req[r].respNum : r \in ConcReqIds} = 1..MaxReqs
    /\ movies[1].num_ratings = MaxReqs

====
